---- MODULE Spec2Model ----
(***************************************************************************)
(* Model of src/proxy/mod.rs of pingsix: the ProxyHttp hooks of            *)
(* ProxyService (new_ctx, request_filter, fail_to_connect, upstream_peer,  *)
(* upstream_request_filter), the per-request ProxyContext they work on,    *)
(* and the wall clock read by now().                                       *)
(*                                                                         *)
(* Two specifications are given.  Spec lets a caller invoke the hooks of a *)
(* request in any order and any number of times (the hooks are public      *)
(* trait methods).  EngineSpec drives them in the order of the request     *)
(* lifecycle: filter, then per attempt select / rewrite / connect, and a   *)
(* new attempt exactly when fail_to_connect marked the error retryable.    *)
(***************************************************************************)
EXTENDS Integers, Sequences, FiniteSets, TLC

\* ------------------------------------------------------------------ bounds
MaxRetries == 2   \* largest configured max_retries
MaxTimeout == 1   \* largest ordinary retry_timeout (seconds)
MaxSeconds == 1   \* the wall clock takes values up to MaxSeconds s + 1 ms
WordBits   == 16  \* width at which the u64 arithmetic of line 84 is modelled

\* ------------------------------------------------------- program constants
MillisPerSecond == 1000
NOT_FOUND == 404

\* ---------------------------------------------------------------- Option<T>
None == <<>>
Some(x) == <<x>>
IsSome(o) == o # None
Unwrap(o) == o[1]

\* ------------------------------------------------------------- u64 helpers
U64Modulus == 2 ^ WordBits

\* a - b on u64: overflow-checked builds panic on underflow, others wrap
U64Sub(a, b, checks) ==
    IF a >= b THEN [panic |-> FALSE, val |-> a - b]
    ELSE IF checks THEN [panic |-> TRUE, val |-> 0]
    ELSE [panic |-> FALSE, val |-> (a - b) + U64Modulus]

\* a * b on u64: overflow-checked builds panic on overflow, others wrap
U64Mul(a, b, checks) ==
    IF a * b < U64Modulus THEN [panic |-> FALSE, val |-> a * b]
    ELSE IF checks THEN [panic |-> TRUE, val |-> 0]
    ELSE [panic |-> FALSE, val |-> (a * b) % U64Modulus]

\* ------------------------------------------------------------ the universe
Requests == {"q1", "q2"}
Rules == {"R1", "R2"}

\* smallest retry_timeout whose product with 1000 leaves the u64 range
OverflowTimeout == (U64Modulus \div MillisPerSecond) + 1

RetriesOpt == {None} \cup {Some(n) : n \in 0..MaxRetries}
TimeoutOpt == {None} \cup {Some(t) : t \in 0..MaxTimeout} \cup {Some(OverflowTimeout)}
LbConfig == [retries : RetriesOpt, retry_timeout : TimeoutOpt]

\* connect failures reported for one request: one more than any policy retries
MaxFails == MaxRetries + 1

\* wall-clock readings, in ms relative to the epoch; PreEpoch is a clock set
\* before 1970
PreEpoch == -1
ClockValues == {PreEpoch} \cup {s * MillisPerSecond + d : s \in 0..MaxSeconds, d \in {0, 1}}

\* request lines a session can carry, and the Host the client sent
Paths == {"/a/1", "/b", "/zzz"}
ClientHost == "client.example"

VARIABLES
    wall_clock,       \* SystemTime::now()
    overflow_checks,  \* build profile: integer overflow checks on or off
    lb,               \* [Rules -> LbConfig]: retry policy of each rule's load balancer
    session,          \* [Requests -> Paths]: the request each session carries
    ctx,              \* [Requests -> ProxyContext]
    ret,              \* [Requests -> what the last hook invoked for the request returned]
    fails,            \* [Requests -> number of fail_to_connect invocations]
    granted,          \* [Requests -> number of those that called set_retry(true)]
    refused,          \* [Requests -> whether one of them, under a retry policy, refused]
    pc,               \* [Requests -> lifecycle position]
    attempt           \* [Requests -> engine's record of the attempt in progress]

vars == <<wall_clock, overflow_checks, lb, session, ctx, ret, fails, granted, refused, pc, attempt>>

\* ------------------------------------------------------------------- now()
\* SystemTime::now().duration_since(UNIX_EPOCH).unwrap_or_default(), as_millis
now == IF wall_clock < 0 THEN 0 ELSE wall_clock

\* ------------------------------------------------------------ ProxyContext
ProxyContext(router, router_params, tries, created_at) ==
    [router |-> router, router_params |-> router_params,
     tries |-> tries, created_at |-> created_at]

\* impl Default for ProxyContext
ProxyContextDefault == ProxyContext(None, {}, 0, now)

\* placeholder held for a request whose context does not exist yet
Vacant == ProxyContext(None, {}, 0, 0)

\* -------------------------------------------------------------- hook results
\* a pingora Error: its type, the status an HTTPStatus error carries, its retry flag
Err(etype, status, retry) == [etype |-> etype, status |-> status, retry |-> retry]
NoErr == Err("none", 0, FALSE)
NoRet ==
    [hook |-> "none", result |-> "none", err |-> NoErr, e_in |-> NoErr,
     set_retry |-> FALSE, lb |-> None, peer |-> None, header |-> None]

Ret(hook, result) == [NoRet EXCEPT !.hook = hook, !.result = result]
Panic(hook) == Ret(hook, "panic")

NoAttempt == [peer |-> None, header |-> None, connects |-> 0, rewrites |-> 0, selects |-> 0]

\* ------------------------------------------------ router and lb (4.1 - 4.3)
\* MatchEntry::match_request: the first rule whose pattern accepts the request,
\* with the path parameters it captured.  R1 serves /a/:id, R2 serves /b.
match_request(s) ==
    IF s = "/a/1" THEN Some([router_params |-> {<<"id", "1">>}, router |-> "R1"])
    ELSE IF s = "/b" THEN Some([router_params |-> {}, router |-> "R2"])
    ELSE None

\* lb.get_retries() / lb.get_retry_timeout(): the rule's configured policy
get_retries(router) == lb[router].retries
get_retry_timeout(router) == lb[router].retry_timeout

\* the upstream set of each rule's load balancer
Upstreams(router) ==
    IF router = "R1" THEN {"10.0.1.1:80", "10.0.1.2:80"} ELSE {"10.0.2.1:80"}

\* ProxyRouter::select_http_peer: the results the rule's balancer can give
select_http_peer(router) ==
    {[result |-> "Ok", err |-> NoErr, peer |-> Some(p)] : p \in Upstreams(router)}
    \cup {[result |-> "Err", err |-> Err("NoHealthyUpstream", 0, FALSE),
           peer |-> None]}

\* the outbound request header the engine hands to upstream_request_filter
FreshHeader == [host |-> ClientHost, rewritten_by |-> <<>>]

\* lb.upstream_host_rewrite: R1 overrides Host with a fixed value, R2 passes
\* the client's Host through
upstream_host_rewrite(router, h) ==
    [host |-> IF router = "R1" THEN "r1.internal" ELSE h.host,
     rewritten_by |-> Append(h.rewritten_by, router)]

\* --------------------------------------------------------------- the hooks
\* Each hook is an action on the context of request r and on ret[r], the
\* value it hands back to its caller.

\* fn new_ctx(&self) -> Self::CTX
new_ctx(r) ==
    /\ ctx' = [ctx EXCEPT ![r] = ProxyContextDefault]
    /\ ret' = [ret EXCEPT ![r] = Ret("new_ctx", "Ok")]

\* mutant of request_filter: the early return of the no-match branch lost
request_filter_FallThrough(r) ==
    LET m == match_request(session[r]) IN
    /\ ctx' = IF IsSome(m)
              THEN [ctx EXCEPT ![r].router_params = Unwrap(m).router_params,
                               ![r].router = Some(Unwrap(m).router)]
              ELSE ctx
    /\ ret' = [ret EXCEPT ![r] = Ret("request_filter", "Ok(false)")]

\* mutant of request_filter: on a match the context is rebuilt from
\* ProxyContext::default() around the matched rule
request_filter_RebuildsContext(r) ==
    LET m == match_request(session[r]) IN
    IF IsSome(m)
    THEN /\ ctx' = [ctx EXCEPT ![r] =
                [ProxyContextDefault EXCEPT !.router_params = Unwrap(m).router_params,
                                            !.router = Some(Unwrap(m).router)]]
         /\ ret' = [ret EXCEPT ![r] = Ret("request_filter", "Ok(false)")]
    ELSE /\ ctx' = ctx
         /\ ret' = [ret EXCEPT ![r] = [Ret("request_filter", "Err") EXCEPT
                        !.err = Err("HTTPStatus", NOT_FOUND, FALSE)]]

\* async fn request_filter(&self, session, ctx) -> Result<bool>
request_filter(r) ==
    LET m == match_request(session[r]) IN
    IF IsSome(m)
    THEN /\ ctx' = [ctx EXCEPT ![r].router_params = Unwrap(m).router_params,
                               ![r].router = Some(Unwrap(m).router)]
         /\ ret' = [ret EXCEPT ![r] = Ret("request_filter", "Ok(false)")]
    ELSE /\ ctx' = ctx
         /\ ret' = [ret EXCEPT ![r] = [Ret("request_filter", "Err") EXCEPT
                        !.err = Err("HTTPStatus", NOT_FOUND, FALSE)]]

\* mutant of AttemptsExhausted: the bound compared with > instead of >=
AttemptsExhausted_OffByOne(retries, tries) == retries = 0 \/ tries > retries

\* mutant of AttemptsExhausted: the bound read as a count of attempts that
\* may still fail, so that a counter equal to it is within budget
AttemptsExhausted_EqualIsWithin(retries, tries) == tries > retries

\* line 79: retries == 0 || ctx.tries >= retries
AttemptsExhausted(retries, tries) == retries = 0 \/ tries >= retries

\* mutant of TimeBudgetCheck: the elapsed time truncated to whole seconds
\* before it is compared with the budget
TimeBudgetCheck_WholeSeconds(created_at, timeout) ==
    LET elapsed == U64Sub(now, created_at, overflow_checks) IN
    IF elapsed.panic
    THEN [panic |-> TRUE, over |-> FALSE]
    ELSE [panic |-> FALSE, over |-> (elapsed.val \div MillisPerSecond) > timeout]

\* line 84: now().as_millis() as u64 - ctx.created_at > timeout * 1000
\* [panic, over]: whether evaluating the comparison panics, and its value
TimeBudgetCheck(created_at, timeout) ==
    LET elapsed == U64Sub(now, created_at, overflow_checks)
        budget  == U64Mul(timeout, MillisPerSecond, overflow_checks)
    IN  IF elapsed.panic \/ budget.panic
        THEN [panic |-> TRUE, over |-> FALSE]
        ELSE [panic |-> FALSE, over |-> elapsed.val > budget.val]

\* mutant of GrantRetry: the time budget restarted at every granted retry
GrantRetry_RestartsClock(r, e) ==
    /\ ctx' = [ctx EXCEPT ![r].tries = @ + 1, ![r].created_at = now]
    /\ ret' = [ret EXCEPT ![r] = [Ret("fail_to_connect", "Error") EXCEPT
                   !.e_in = e, !.err = [e EXCEPT !.retry = TRUE], !.set_retry = TRUE]]

\* mutant of GrantRetry: the retry counter kept once for the service, so
\* that a granted retry counts for every request
GrantRetry_SharedCounter(r, e) ==
    /\ ctx' = [q \in Requests |-> [ctx[q] EXCEPT !.tries = @ + 1]]
    /\ ret' = [ret EXCEPT ![r] = [Ret("fail_to_connect", "Error") EXCEPT
                   !.e_in = e, !.err = [e EXCEPT !.retry = TRUE], !.set_retry = TRUE]]

\* mutant of GrantRetry: the matched rule taken out of the context when a
\* retry is granted
GrantRetry_TakesRouter(r, e) ==
    /\ ctx' = [ctx EXCEPT ![r].tries = @ + 1, ![r].router = None]
    /\ ret' = [ret EXCEPT ![r] = [Ret("fail_to_connect", "Error") EXCEPT
                   !.e_in = e, !.err = [e EXCEPT !.retry = TRUE], !.set_retry = TRUE]]

\* lines 89-91: ctx.tries += 1; e.set_retry(true); return e
GrantRetry(r, e) ==
    /\ ctx' = [ctx EXCEPT ![r].tries = @ + 1]
    /\ ret' = [ret EXCEPT ![r] = [Ret("fail_to_connect", "Error") EXCEPT
                   !.e_in = e, !.err = [e EXCEPT !.retry = TRUE], !.set_retry = TRUE]]

\* mutant of ReturnError: a refused error has its retry flag cleared
ReturnError_ClearsRetry(r, e) ==
    /\ ctx' = ctx
    /\ ret' = [ret EXCEPT ![r] = [Ret("fail_to_connect", "Error") EXCEPT
                   !.e_in = e, !.err = [e EXCEPT !.retry = FALSE]]]

\* return e: the error goes back as it came, the context is not touched
ReturnError(r, e) ==
    /\ ctx' = ctx
    /\ ret' = [ret EXCEPT ![r] = [Ret("fail_to_connect", "Error") EXCEPT
                   !.e_in = e, !.err = e]]

\* mutant of RetryWithPolicy: ctx.tries incremented before the time budget
\* is looked at, so that a refusal on time still counts an attempt
RetryWithPolicy_CountsFirst(r, e, retries, timeout) ==
    IF AttemptsExhausted(retries, ctx[r].tries)
    THEN ReturnError(r, e)
    ELSE IF IsSome(timeout)
         THEN LET chk == TimeBudgetCheck(ctx[r].created_at, Unwrap(timeout)) IN
              IF chk.panic
              THEN /\ ctx' = ctx
                   /\ ret' = [ret EXCEPT ![r] = [Panic("fail_to_connect") EXCEPT !.e_in = e]]
              ELSE IF chk.over
                   THEN /\ ctx' = [ctx EXCEPT ![r].tries = @ + 1]
                        /\ ret' = [ret EXCEPT ![r] = [Ret("fail_to_connect", "Error") EXCEPT
                                       !.e_in = e, !.err = e]]
                   ELSE GrantRetry(r, e)
         ELSE GrantRetry(r, e)

\* lines 79-91: the decision once the rule has a retry policy
RetryWithPolicy(r, e, retries, timeout) ==
    IF AttemptsExhausted(retries, ctx[r].tries)
    THEN ReturnError(r, e)
    ELSE IF IsSome(timeout)
         THEN LET chk == TimeBudgetCheck(ctx[r].created_at, Unwrap(timeout)) IN
              IF chk.panic
              THEN /\ ctx' = ctx
                   /\ ret' = [ret EXCEPT ![r] = [Panic("fail_to_connect") EXCEPT !.e_in = e]]
              ELSE IF chk.over THEN ReturnError(r, e) ELSE GrantRetry(r, e)
         ELSE GrantRetry(r, e)

\* mutant of fail_to_connect: an unset max_retries read as one retry
fail_to_connect_UnsetIsOne(r, e) ==
    IF IsSome(ctx[r].router)
    THEN LET router == Unwrap(ctx[r].router) IN
         IF IsSome(get_retries(router))
         THEN RetryWithPolicy(r, e, Unwrap(get_retries(router)), get_retry_timeout(router))
         ELSE RetryWithPolicy(r, e, 1, get_retry_timeout(router))
    ELSE ReturnError(r, e)

\* fn fail_to_connect(&self, _session, _peer, ctx, mut e) -> Box<Error>
fail_to_connect(r, e) ==
    IF IsSome(ctx[r].router)
    THEN LET router == Unwrap(ctx[r].router) IN
         IF IsSome(get_retries(router))
         THEN RetryWithPolicy(r, e, Unwrap(get_retries(router)), get_retry_timeout(router))
         ELSE ReturnError(r, e)
    ELSE ReturnError(r, e)

\* mutant of upstream_peer: a failed selection starts the retry count afresh
upstream_peer_ResetsTries(r) ==
    IF IsSome(ctx[r].router)
    THEN \E res \in select_http_peer(Unwrap(ctx[r].router)) :
            /\ ctx' = IF res.result = "Err" THEN [ctx EXCEPT ![r].tries = 0] ELSE ctx
            /\ ret' = [ret EXCEPT ![r] = [Ret("upstream_peer", res.result) EXCEPT
                           !.err = res.err, !.peer = res.peer, !.lb = ctx[r].router]]
    ELSE /\ ctx' = ctx
         /\ ret' = [ret EXCEPT ![r] = Panic("upstream_peer")]

\* mutant of upstream_peer: the peer taken from the first rule of the table
upstream_peer_FirstRule(r) ==
    /\ ctx' = ctx
    /\ IF IsSome(ctx[r].router)
       THEN \E res \in select_http_peer("R1") :
               ret' = [ret EXCEPT ![r] = [Ret("upstream_peer", res.result) EXCEPT
                           !.err = res.err, !.peer = res.peer, !.lb = Some("R1")]]
       ELSE ret' = [ret EXCEPT ![r] = Panic("upstream_peer")]

\* async fn upstream_peer(&self, session, ctx) -> Result<Box<HttpPeer>>
upstream_peer(r) ==
    /\ ctx' = ctx
    /\ IF IsSome(ctx[r].router)
       THEN \E res \in select_http_peer(Unwrap(ctx[r].router)) :
               ret' = [ret EXCEPT ![r] = [Ret("upstream_peer", res.result) EXCEPT
                           !.err = res.err, !.peer = res.peer, !.lb = ctx[r].router]]
       ELSE ret' = [ret EXCEPT ![r] = Panic("upstream_peer")]

\* mutant of upstream_request_filter: the rewrite done on the first attempt only
upstream_request_filter_FirstAttemptOnly(r, upstream_request) ==
    /\ ctx' = ctx
    /\ IF IsSome(ctx[r].router)
       THEN ret' = [ret EXCEPT ![r] = [Ret("upstream_request_filter", "Ok(())") EXCEPT
                        !.lb = ctx[r].router,
                        !.header = Some(IF ctx[r].tries = 0
                                        THEN upstream_host_rewrite(Unwrap(ctx[r].router),
                                                                   upstream_request)
                                        ELSE upstream_request)]]
       ELSE ret' = [ret EXCEPT ![r] = Panic("upstream_request_filter")]

\* async fn upstream_request_filter(&self, _session, upstream_request, ctx) -> Result<()>
upstream_request_filter(r, upstream_request) ==
    /\ ctx' = ctx
    /\ IF IsSome(ctx[r].router)
       THEN ret' = [ret EXCEPT ![r] = [Ret("upstream_request_filter", "Ok(())") EXCEPT
                        !.lb = ctx[r].router,
                        !.header = Some(upstream_host_rewrite(Unwrap(ctx[r].router),
                                                              upstream_request))]]
       ELSE ret' = [ret EXCEPT ![r] = Panic("upstream_request_filter")]

\* ------------------------------------------------------------ environment
\* errors a failed connection attempt hands to fail_to_connect
ConnectErrors == {Err(t, 0, f) : t \in {"ConnectRefused", "ConnectTimedout"}, f \in BOOLEAN}

\* rule tables: R1's balancer takes every policy, R2's retries once, untimed
LbTables ==
    {t \in [Rules -> LbConfig] :
        t["R2"] = [retries |-> Some(1), retry_timeout |-> None]}

Init ==
    /\ wall_clock \in ClockValues
    /\ overflow_checks \in BOOLEAN
    /\ lb \in LbTables
    /\ session = [r \in Requests |-> ""]
    /\ ctx = [r \in Requests |-> Vacant]
    /\ ret = [r \in Requests |-> NoRet]
    /\ fails = [r \in Requests |-> 0]
    /\ granted = [r \in Requests |-> 0]
    /\ refused = [r \in Requests |-> FALSE]
    /\ pc = [r \in Requests |-> "none"]
    /\ attempt = [r \in Requests |-> NoAttempt]

\* the system clock moves: forwards, or backwards when it is stepped
Tick ==
    /\ \E t \in ClockValues \ {wall_clock} : wall_clock' = t
    /\ UNCHANGED <<overflow_checks, lb, session, ctx, ret, fails, granted, refused, pc, attempt>>

\* a request arrives and the engine creates its context
NewCtx(r) ==
    /\ pc[r] = "none"
    /\ \E p \in Paths : session' = [session EXCEPT ![r] = p]
    /\ new_ctx(r)
    /\ pc' = [pc EXCEPT ![r] = "filter"]
    /\ UNCHANGED <<wall_clock, overflow_checks, lb, fails, granted, refused, attempt>>

\* a panic unwinds the task serving the request: no hook runs for it again
Alive(r) == pc[r] \notin {"none", "panicked"}
Panicked(r) == ret'[r].result = "panic"

\* bookkeeping of one fail_to_connect invocation
CountFail(r) ==
    /\ fails' = [fails EXCEPT ![r] = @ + 1]
    /\ granted' = [granted EXCEPT ![r] = IF ret'[r].set_retry THEN @ + 1 ELSE @]
    /\ refused' = [refused EXCEPT ![r] =
           \/ @
           \/ /\ IsSome(ctx[r].router)
              /\ IsSome(lb[Unwrap(ctx[r].router)].retries)
              /\ ret'[r].result = "Error"
              /\ ~ret'[r].set_retry]

\* ------------------------------------------ Spec: hooks invoked in any order
StayOrPanic(r) == pc' = [pc EXCEPT ![r] = IF Panicked(r) THEN "panicked" ELSE @]

CallRequestFilter(r) ==
    /\ Alive(r)
    /\ request_filter(r)
    /\ StayOrPanic(r)
    /\ UNCHANGED <<wall_clock, overflow_checks, lb, session, fails, granted, refused, attempt>>

CallFailToConnect(r) ==
    /\ Alive(r)
    /\ fails[r] < MaxFails
    /\ \E e \in ConnectErrors : fail_to_connect(r, e)
    /\ CountFail(r)
    /\ StayOrPanic(r)
    /\ UNCHANGED <<wall_clock, overflow_checks, lb, session, attempt>>

CallUpstreamPeer(r) ==
    /\ Alive(r)
    /\ upstream_peer(r)
    /\ StayOrPanic(r)
    /\ UNCHANGED <<wall_clock, overflow_checks, lb, session, fails, granted, refused, attempt>>

CallUpstreamRequestFilter(r) ==
    /\ Alive(r)
    /\ upstream_request_filter(r, FreshHeader)
    /\ StayOrPanic(r)
    /\ UNCHANGED <<wall_clock, overflow_checks, lb, session, fails, granted, refused, attempt>>

\* the requests served when one request is looked at alone
Solo == {"q1"}

Next ==
    \/ Tick
    \/ \E r \in Solo : NewCtx(r)
    \/ \E r \in Solo : CallRequestFilter(r)
    \/ \E r \in Solo : CallFailToConnect(r)
    \/ \E r \in Solo : CallUpstreamPeer(r)
    \/ \E r \in Solo : CallUpstreamRequestFilter(r)

Spec == Init /\ [][Next]_vars

\* ------------------------------ EngineSpec: hooks driven by the lifecycle
\* pc: "filter" -> "select" -> "rewrite" -> "connect" -> "done", and back to
\* "select" from "connect" when fail_to_connect returned a retryable error.

\* errors of a fresh connect failure: the engine hands them over not retryable
EngineConnectErrors == {e \in ConnectErrors : ~e.retry}

EngineRequestFilter(r) ==
    /\ pc[r] = "filter"
    /\ request_filter(r)
    /\ pc' = [pc EXCEPT ![r] = IF ret'[r].result = "Err" THEN "done" ELSE "select"]
    /\ UNCHANGED <<wall_clock, overflow_checks, lb, session, fails, granted, refused, attempt>>

EngineUpstreamPeer(r) ==
    /\ pc[r] = "select"
    /\ upstream_peer(r)
    /\ pc' = [pc EXCEPT ![r] = IF Panicked(r) THEN "panicked"
                               ELSE IF ret'[r].result = "Err" THEN "done"
                               ELSE "rewrite"]
    /\ attempt' = [attempt EXCEPT ![r].peer = ret'[r].peer,
                                  ![r].selects = IF IsSome(ret'[r].lb) THEN @ + 1 ELSE @]
    /\ UNCHANGED <<wall_clock, overflow_checks, lb, session, fails, granted, refused>>

EngineUpstreamRequestFilter(r) ==
    /\ pc[r] = "rewrite"
    /\ upstream_request_filter(r, FreshHeader)
    /\ pc' = [pc EXCEPT ![r] = IF Panicked(r) THEN "panicked" ELSE "connect"]
    /\ attempt' = [attempt EXCEPT
           ![r].header = ret'[r].header,
           ![r].rewrites = IF IsSome(ret'[r].header)
                           THEN @ + Len(Unwrap(ret'[r].header).rewritten_by)
                           ELSE @]
    /\ UNCHANGED <<wall_clock, overflow_checks, lb, session, fails, granted, refused>>

\* the connection is established and the request is proxied
EngineConnectOk(r) ==
    /\ pc[r] = "connect"
    /\ pc' = [pc EXCEPT ![r] = "done"]
    /\ attempt' = [attempt EXCEPT ![r].connects = @ + 1]
    /\ UNCHANGED <<wall_clock, overflow_checks, lb, session, ctx, ret, fails, granted, refused>>

\* the connection fails: fail_to_connect decides, and a retryable error
\* starts a new attempt with nothing selected and nothing rewritten
EngineFailToConnect(r) ==
    /\ pc[r] = "connect"
    /\ fails[r] < MaxFails
    /\ \E e \in EngineConnectErrors : fail_to_connect(r, e)
    /\ CountFail(r)
    /\ pc' = [pc EXCEPT ![r] = IF Panicked(r) THEN "panicked"
                               ELSE IF ret'[r].err.retry THEN "select"
                               ELSE "done"]
    /\ attempt' = [attempt EXCEPT
           ![r].connects = @ + 1,
           ![r].peer = IF ret'[r].err.retry THEN None ELSE @,
           ![r].header = IF ret'[r].err.retry THEN None ELSE @]
    /\ UNCHANGED <<wall_clock, overflow_checks, lb, session>>

EngineNext ==
    \/ Tick
    \/ \E r \in Solo : NewCtx(r)
    \/ \E r \in Solo : EngineRequestFilter(r)
    \/ \E r \in Solo : EngineUpstreamPeer(r)
    \/ \E r \in Solo : EngineUpstreamRequestFilter(r)
    \/ \E r \in Solo : EngineConnectOk(r)
    \/ \E r \in Solo : EngineFailToConnect(r)

EngineSpec == Init /\ [][EngineNext]_vars

\* ------------------------------------------------------------ the claims
\* what the matched rule of request r configures
Matched(r) == IsSome(ctx[r].router)
PolicyRetries(r) == lb[Unwrap(ctx[r].router)].retries
PolicyTimeout(r) == lb[Unwrap(ctx[r].router)].retry_timeout
\* the step is an invocation of fail_to_connect for request r
FailStep(r) == fails'[r] = fails[r] + 1

\* C1: when the matched rule's max_retries is unset, no connect failure is
\* ever retried: no fail_to_connect invocation marks the error retryable, the
\* error comes back as it went in, and ctx.tries stays 0.
C1_UnsetNeverRetries ==
    \A r \in Requests :
        (Matched(r) /\ PolicyRetries(r) = None) =>
            /\ ctx[r].tries = 0
            /\ granted[r] = 0
            /\ (ret[r].hook = "fail_to_connect" =>
                    /\ ret[r].result = "Error"
                    /\ ~ret[r].set_retry
                    /\ ret[r].err = ret[r].e_in)

\* C1 witness: a request matched to a rule without max_retries has had its
\* connect failures reported MaxFails times
C1_Witness ==
    \E r \in Requests :
        /\ Matched(r) /\ PolicyRetries(r) = None
        /\ ret[r].hook = "fail_to_connect"
        /\ fails[r] = MaxFails

\* C2: with max_retries = Some(n) at most n retries are granted and ctx.tries
\* never exceeds n; without a time budget a failure is terminal only once n
\* retries have been granted (n = 2: the 1st and 2nd failures are retried,
\* the 3rd is terminal).
C2_AtMostNRetries ==
    \A r \in Requests :
        (Matched(r) /\ IsSome(PolicyRetries(r))) =>
            LET n == Unwrap(PolicyRetries(r)) IN
            /\ ctx[r].tries <= n
            /\ granted[r] <= n
            /\ (PolicyTimeout(r) = None /\ ret[r].hook = "fail_to_connect" =>
                    /\ ret[r].result = "Error"
                    /\ (~ret[r].set_retry => ctx[r].tries = n /\ granted[r] = n))

\* C2 witness: max_retries = Some(2), two failures were retried and the
\* third came back terminal
C2_Witness ==
    \E r \in Requests :
        /\ Matched(r) /\ PolicyRetries(r) = Some(2)
        /\ fails[r] = 3 /\ granted[r] = 2 /\ ctx[r].tries = 2
        /\ ret[r].hook = "fail_to_connect" /\ ~ret[r].set_retry

\* C3: a fail_to_connect invocation made when more than t*1000 ms of wall
\* clock have passed since the context was created (retry_timeout = Some(t))
\* does not retry: it does not mark the error and does not increment
\* ctx.tries, whatever the attempt counter is.
C3_TimeBudgetExceeded ==
    [][\A r \in Requests :
        (/\ FailStep(r)
         /\ Matched(r)
         /\ IsSome(PolicyTimeout(r))
         /\ now - ctx[r].created_at > Unwrap(PolicyTimeout(r)) * MillisPerSecond)
        => /\ ctx'[r].tries = ctx[r].tries
           /\ ~ret'[r].set_retry
           /\ ~ret'[r].err.retry \/ ret'[r].err = ret'[r].e_in]_vars

\* C3 witness: a failure was refused on time alone: the counter is below
\* max_retries and the elapsed time is over a budget of at least one second
C3_Witness ==
    \E r \in Requests :
        /\ Matched(r) /\ IsSome(PolicyRetries(r)) /\ IsSome(PolicyTimeout(r))
        /\ Unwrap(PolicyTimeout(r)) >= 1
        /\ ctx[r].tries < Unwrap(PolicyRetries(r))
        /\ now - ctx[r].created_at > Unwrap(PolicyTimeout(r)) * MillisPerSecond
        /\ ret[r].hook = "fail_to_connect" /\ ret[r].result = "Error"
        /\ ~ret[r].set_retry

\* C4: a request that matches no rule gets the 404 error from request_filter,
\* its context keeps router = None, and the lifecycle ends there: no peer is
\* selected, nothing is rewritten, no connection is attempted.
C4_NoMatchNotFound ==
    \A r \in Requests :
        (pc[r] \notin {"none", "filter"} /\ match_request(session[r]) = None) =>
            /\ pc[r] = "done"
            /\ ret[r].hook = "request_filter"
            /\ ret[r].result = "Err"
            /\ ret[r].err = Err("HTTPStatus", 404, FALSE)
            /\ ctx[r].router = None
            /\ attempt[r] = NoAttempt

\* C4 witness: a request for a path no rule serves has been filtered
C4_Witness ==
    \E r \in Requests :
        /\ session[r] = "/zzz"
        /\ pc[r] = "done"
        /\ ret[r].hook = "request_filter"

\* C5: upstream_peer and upstream_request_filter, invoked on a context without
\* a matched rule, return a RoutingUnavailable error and do not panic.
C5_RoutingUnavailable ==
    \A r \in Requests :
        (ret[r].hook \in {"upstream_peer", "upstream_request_filter"}
            /\ ctx[r].router = None) =>
            /\ ret[r].result = "Err"
            /\ ret[r].err.etype = "RoutingUnavailable"

\* C6: ctx.tries changes only in a fail_to_connect invocation that grants a
\* retry, and then by exactly +1; every other step leaves it as it is.
C6_TriesMonotone ==
    [][\A r \in Requests :
        /\ ctx'[r].tries \in {ctx[r].tries, ctx[r].tries + 1}
        /\ (ctx'[r].tries # ctx[r].tries =>
                /\ FailStep(r)
                /\ ret'[r].hook = "fail_to_connect"
                /\ ret'[r].set_retry)
        /\ (FailStep(r) /\ ret'[r].set_retry => ctx'[r].tries = ctx[r].tries + 1)]_vars

\* C6 witness: after a granted retry the peer selection failed and the
\* counter still stands at its value
C6_Witness ==
    \E r \in Requests :
        /\ ctx[r].tries >= 1
        /\ ret[r].hook = "upstream_peer" /\ ret[r].result = "Err"

\* C7: created_at is the clock reading taken when the context is created,
\* and no step changes it afterwards.
C7_CreatedAtFixed ==
    [][\A r \in Requests :
        /\ (pc[r] = "none" /\ pc'[r] # "none" => ctx'[r].created_at = now)
        /\ (pc[r] # "none" => ctx'[r].created_at = ctx[r].created_at)]_vars

\* C7 witness: a retry was granted at a clock reading other than created_at
C7_Witness ==
    \E r \in Requests :
        /\ ret[r].hook = "fail_to_connect" /\ ret[r].set_retry
        /\ now # ctx[r].created_at

\* C8: once a rule is stored in the context no step replaces or clears it,
\* and every peer selection is delegated to that rule's load balancer and
\* yields a peer of that rule's upstream set.
C8_OwnLoadBalancer ==
    [][\A r \in Requests :
        /\ (IsSome(ctx[r].router) => ctx'[r].router = ctx[r].router)
        /\ (IsSome(ctx'[r].router) =>
                ctx'[r].router = Some(Unwrap(match_request(session'[r])).router))
        /\ (ret'[r].hook = "upstream_peer" /\ ret'[r].result # "panic" =>
                /\ IsSome(ctx[r].router)
                /\ ret'[r].lb = ctx[r].router
                /\ (IsSome(ret'[r].peer) =>
                        Unwrap(ret'[r].peer) \in Upstreams(Unwrap(ctx[r].router))))]_vars

\* C8 witness: a request matched to R2 selected a peer after a granted retry
C8_Witness ==
    \E r \in Requests :
        /\ ctx[r].router = Some("R2") /\ granted[r] >= 1
        /\ ret[r].hook = "upstream_peer" /\ ret[r].result = "Ok"

\* C9: when a connection is attempted, on the first attempt and on every
\* retry, a peer has been selected for this attempt and the outbound header
\* has been rewritten exactly once, by the matched rule's load balancer; the
\* request has seen one selection and one rewrite per attempt.
C9_OneRewritePerAttempt ==
    \A r \in Requests :
        /\ (pc[r] = "connect" =>
                /\ IsSome(attempt[r].peer)
                /\ IsSome(attempt[r].header)
                /\ Unwrap(attempt[r].header).rewritten_by = <<Unwrap(ctx[r].router)>>
                /\ attempt[r].rewrites = attempt[r].connects + 1
                /\ attempt[r].selects = attempt[r].connects + 1)
        /\ (pc[r] = "select" =>
                /\ attempt[r].peer = None /\ attempt[r].header = None
                /\ attempt[r].rewrites = attempt[r].connects)

\* C9 witness: the second retry of a request is about to connect
C9_Witness ==
    \E r \in Requests :
        /\ pc[r] = "connect" /\ granted[r] = 2 /\ attempt[r].connects = 2

\* C10: once a fail_to_connect decision under a retry policy was not to retry
\* (attempts or time exhausted), no later fail_to_connect invocation of the
\* request grants a retry.
C10_Irreversible ==
    [][\A r \in Requests : refused[r] => granted'[r] = granted[r]]_vars

\* C11: with max_retries = Some(0) every connect failure is terminal: each
\* fail_to_connect invocation returns the error as it came, without marking
\* it, without panicking and without consulting the time budget; ctx.tries
\* stays 0 and the refusal is one made under a retry policy.
C11_ZeroRetriesTerminal ==
    \A r \in Requests :
        (Matched(r) /\ PolicyRetries(r) = Some(0)) =>
            /\ ctx[r].tries = 0
            /\ granted[r] = 0
            /\ (ret[r].hook = "fail_to_connect" =>
                    /\ ret[r].result = "Error"
                    /\ ~ret[r].set_retry
                    /\ ret[r].err = ret[r].e_in
                    /\ refused[r])

\* C11 witness: max_retries = Some(0), a time budget is configured, the clock
\* stands before created_at and overflow checks are on, and the failure was
\* reported
C11_Witness ==
    \E r \in Requests :
        /\ Matched(r) /\ PolicyRetries(r) = Some(0)
        /\ IsSome(PolicyTimeout(r))
        /\ now < ctx[r].created_at /\ overflow_checks
        /\ ret[r].hook = "fail_to_connect"

\* C12: a fail_to_connect invocation on a matched context grants a retry
\* (tries + 1, error marked retryable) if and only if max_retries = Some(n)
\* with n > 0, tries < n, and no time budget is configured or the time elapsed
\* since created_at is at most budget_seconds * 1000.
C12_TransitionFunction ==
    [][\A r \in Requests :
        (FailStep(r) /\ Matched(r)) =>
            LET grant  == /\ ret'[r].set_retry
                          /\ ret'[r].err.retry
                          /\ ctx'[r].tries = ctx[r].tries + 1
                within == /\ IsSome(PolicyRetries(r))
                          /\ Unwrap(PolicyRetries(r)) > 0
                          /\ ctx[r].tries < Unwrap(PolicyRetries(r))
                          /\ \/ PolicyTimeout(r) = None
                             \/ now - ctx[r].created_at
                                    <= Unwrap(PolicyTimeout(r)) * MillisPerSecond
            IN  grant <=> within]_vars

\* C13: a fail_to_connect invocation that does not grant a retry returns the
\* error it was given, retry flag included, and leaves the whole context as
\* it was; this is what happens, without a panic, when the context has no
\* matched rule, when the rule has no retry policy, when the attempts are
\* exhausted, and when the elapsed time is over the budget.
C13_RefusalChangesNothing ==
    [][\A r \in Requests :
        FailStep(r) =>
            LET same == /\ ret'[r].result = "Error"
                        /\ ~ret'[r].set_retry
                        /\ ret'[r].err = ret'[r].e_in
                        /\ ctx'[r] = ctx[r]
            IN  /\ (ret'[r].result = "Error" /\ ~ret'[r].set_retry => same)
                /\ (~Matched(r) => same)
                /\ (Matched(r) /\ PolicyRetries(r) = None => same)
                /\ (Matched(r) /\ IsSome(PolicyRetries(r))
                        /\ ctx[r].tries >= Unwrap(PolicyRetries(r)) => same)
                /\ (Matched(r) /\ IsSome(PolicyRetries(r)) /\ IsSome(PolicyTimeout(r))
                        /\ now - ctx[r].created_at
                               > Unwrap(PolicyTimeout(r)) * MillisPerSecond => same)]_vars

\* C13 witness: an error that came in marked retryable was refused, after an
\* earlier retry, and came back still marked
C13_Witness ==
    \E r \in Requests :
        /\ ret[r].hook = "fail_to_connect" /\ ret[r].result = "Error"
        /\ ~ret[r].set_retry
        /\ ret[r].e_in.retry /\ ret[r].err.retry
        /\ ctx[r].tries >= 1

\* C14: request_filter, on a match, stores the matched rule and the matcher's
\* path parameters in the context, changes nothing else of it (tries and
\* created_at stay), and returns Ok(false); on no match it leaves the context
\* as it was and returns the 404 error.
C14_RequestFilterEffect ==
    [][\A r \in Requests :
        ret'[r].hook = "request_filter" =>
            LET m == match_request(session[r]) IN
            IF IsSome(m)
            THEN /\ ctx'[r] = [ctx[r] EXCEPT !.router = Some(Unwrap(m).router),
                                             !.router_params = Unwrap(m).router_params]
                 /\ ctx'[r].tries = ctx[r].tries
                 /\ ctx'[r].created_at = ctx[r].created_at
                 /\ ret'[r].result = "Ok(false)"
            ELSE /\ ctx'[r] = ctx[r]
                 /\ ctx'[r].router = None
                 /\ ret'[r].result = "Err"
                 /\ ret'[r].err = Err("HTTPStatus", 404, FALSE)]_vars

\* C14 witness: request_filter matched a request with path parameters on a
\* context that already counts a retry and was created at another clock
\* reading
C14_Witness ==
    \E r \in Requests :
        /\ ret[r].hook = "request_filter" /\ ret[r].result = "Ok(false)"
        /\ ctx[r].router_params # {}
        /\ ctx[r].tries >= 1
        /\ ctx[r].created_at # now

\* ------------------- FailingSpec: the lifecycle when every connection fails
\* The engine keeps driving the request (weak fairness of each of its steps);
\* no connection attempt succeeds.
FailingStep(r) ==
    \/ EngineRequestFilter(r)
    \/ EngineUpstreamPeer(r)
    \/ EngineUpstreamRequestFilter(r)
    \/ EngineFailToConnect(r)

FailingNext ==
    \/ Tick
    \/ \E r \in Solo : NewCtx(r)
    \/ \E r \in Solo : EngineRequestFilter(r)
    \/ \E r \in Solo : EngineUpstreamPeer(r)
    \/ \E r \in Solo : EngineUpstreamRequestFilter(r)
    \/ \E r \in Solo : EngineFailToConnect(r)

FailingSpec ==
    /\ Init
    /\ [][FailingNext]_vars
    /\ \A r \in Solo : WF_vars(NewCtx(r)) /\ WF_vars(FailingStep(r))

\* the request ended with an error that is not retryable
TerminalFailure(r) ==
    /\ pc[r] = "done"
    /\ ret[r].result \in {"Err", "Error"}
    /\ ~ret[r].err.retry

\* C15: a request whose rule has max_retries = Some(n), and whose connection
\* attempts all fail, is granted at most n retries and is, at every moment,
\* either at its terminal failure or able to take its next lifecycle step.
C15_RetryLoopTerminates ==
    \A r \in Requests :
        (Matched(r) /\ IsSome(PolicyRetries(r))) =>
            /\ granted[r] <= Unwrap(PolicyRetries(r))
            /\ (TerminalFailure(r) \/ ENABLED FailingStep(r))

\* ----------------- ConcSpec: two requests served by the same ProxyService
\* Both sessions ask for a path of rule R1; the hooks that write a context
\* are invoked for either request in any interleaving.
ConcTables ==
    {t \in LbTables :
        /\ t["R1"].retries \in {Some(n) : n \in 1..MaxRetries}
        /\ t["R1"].retry_timeout \in {None, Some(1)}}

ConcInit == Init /\ lb \in ConcTables /\ wall_clock = 0 /\ overflow_checks

ConcNewCtx(r) == NewCtx(r) /\ session'[r] = "/a/1"

\* the clock only moves forward here
ConcTick == Tick /\ wall_clock' > wall_clock

\* every connect failure is a refused connection, handed over not retryable
ConcFailToConnect(r) ==
    CallFailToConnect(r) /\ ret'[r].e_in = Err("ConnectRefused", 0, FALSE)

ConcNext ==
    \/ ConcTick
    \/ \E r \in Requests : ConcNewCtx(r)
    \/ \E r \in Requests : CallRequestFilter(r)
    \/ \E r \in Requests : ConcFailToConnect(r)

ConcSpec == ConcInit /\ [][ConcNext]_vars

\* what a step may change of request r
OwnState(r) == <<session[r], ctx[r], ret[r], fails[r], granted[r], refused[r], pc[r]>>

\* C16: with two requests of the same rule interleaved, a step changes the
\* state of at most one request; a context's tries changes only in a
\* fail_to_connect invocation of its own request and its created_at only at
\* its creation; each fail_to_connect decision is the one the request's own
\* tries and created_at give, and each request's tries counts its own granted
\* retries only.
C16_ContextsNotShared ==
    [][\A r \in Requests :
        /\ \A q \in Requests \ {r} :
               OwnState(r)' # OwnState(r) => OwnState(q)' = OwnState(q)
        /\ (ctx'[r].tries # ctx[r].tries => FailStep(r))
        /\ (ctx'[r].created_at # ctx[r].created_at => pc[r] = "none")
        /\ (FailStep(r) /\ Matched(r) =>
                (ret'[r].set_retry <=>
                    /\ ctx[r].tries < Unwrap(PolicyRetries(r))
                    /\ \/ PolicyTimeout(r) = None
                       \/ now - ctx[r].created_at
                              <= Unwrap(PolicyTimeout(r)) * MillisPerSecond))
        /\ ctx'[r].tries = granted'[r]]_vars

\* C16 witness: two requests of rule R1, created at different clock readings,
\* have each used up their own retries and been refused
C16_Witness ==
    \E r \in Requests : \E q \in Requests \ {r} :
        /\ ctx[r].router = Some("R1") /\ ctx[q].router = Some("R1")
        /\ ctx[r].created_at # ctx[q].created_at
        /\ granted[r] = Unwrap(PolicyRetries(r)) /\ granted[q] = Unwrap(PolicyRetries(q))
        /\ ctx[r].tries = granted[r] /\ ctx[q].tries = granted[q]
        /\ refused[r] /\ refused[q]

\* C17: in every reachable state ctx.tries of a request equals the number of
\* its fail_to_connect invocations that called set_retry(true).
C17_TriesCountsGrants ==
    \A r \in Requests : ctx[r].tries = granted[r]

\* C17 witness: a request was granted a retry and later refused one on time
\* with attempts left
C17_Witness ==
    \E r \in Requests :
        /\ Matched(r) /\ IsSome(PolicyRetries(r))
        /\ granted[r] >= 1
        /\ ctx[r].tries < Unwrap(PolicyRetries(r))
        /\ ret[r].hook = "fail_to_connect" /\ ret[r].result = "Error"
        /\ ~ret[r].set_retry

\* C18: whenever a fail_to_connect invocation evaluates the time budget (the
\* rule has a retry policy with attempts left and a retry_timeout), the clock
\* reading is not below created_at, so that now() - ctx.created_at neither
\* panics nor wraps around.
C18_NoUnderflow ==
    [][\A r \in Requests :
        (/\ FailStep(r)
         /\ Matched(r)
         /\ IsSome(PolicyRetries(r))
         /\ Unwrap(PolicyRetries(r)) > 0
         /\ ctx[r].tries < Unwrap(PolicyRetries(r))
         /\ IsSome(PolicyTimeout(r)))
        => now >= ctx[r].created_at]_vars

\* C19: in the request lifecycle, where upstream_peer and
\* upstream_request_filter run only after request_filter returned Ok,
\* ctx.router is Some whenever one of them is about to run, on the first
\* attempt and after every granted retry, and neither of them panics.
C19_RouterSetInLifecycle ==
    \A r \in Requests :
        /\ (pc[r] \in {"select", "rewrite", "connect"} => IsSome(ctx[r].router))
        /\ (ret[r].hook \in {"upstream_peer", "upstream_request_filter"} =>
                /\ ret[r].result # "panic"
                /\ IsSome(ctx[r].router))

\* C19 witness: after a granted retry a peer was selected again and the
\* rewrite is about to run
C19_Witness ==
    \E r \in Requests :
        /\ pc[r] = "rewrite" /\ granted[r] >= 1
        /\ ret[r].hook = "upstream_peer" /\ ret[r].result = "Ok"

====
